---- MODULE Spec2Model ----
(***************************************************************************)
(* State-machine model of BlogManager (draft auto-save, edit session and   *)
(* post store) in its two variants:                                        *)
(*   "dedup"    src/XinEn/blogvideophoto/blog.js  (debounced timers,       *)
(*              saveFormDraft with the change check)                       *)
(*   "interval" src/unnamed/part_000              (2 s interval, change,   *)
(*              blur and visibility triggers, always-write saveFormDraft)  *)
(* Strings are sequences of one-character strings so that trim, split and  *)
(* join are computed as the code computes them.                            *)
(***************************************************************************)
EXTENDS Integers, Sequences, FiniteSets, TLC

VARIABLES
    variant,                  \* which source file runs: "dedup" | "interval"
    posts,                    \* this.posts (index 0 of the code = position 1)
    formDraft,                \* this.formDraft
    currentEditIndex,         \* this.currentEditIndex
    selectedImageAttribution, \* this.selectedImageAttribution
    form,                     \* values of the form controls of #blogForm
    formError,                \* #formError textContent
    modalOpen,                \* #postModal is displayed
    saveTimeout,              \* per field: is the closure's saveTimeout pending
    autoSaveInterval,         \* this.autoSaveInterval is armed (interval variant)
    readers,                  \* FileReaders started by handleSubmit, not yet settled
    storage,                  \* sessionStorage item 'blogFormDraft' (serialized)
    storageAvailable,         \* typeof Storage !== 'undefined' && window.sessionStorage
    now,                      \* wall clock, in milliseconds since page load
    userContainer,            \* children of #userPostsContainer (rendered nodes)
    defaultContainer,         \* children of #defaultPostsContainer
    lastOp,                   \* history: class of the handler that ran last
    trip,                     \* history: progress of an edit / create / edit round trip
    creates,                  \* history: number of createPost calls
    deletes                   \* history: number of confirmed deletePost calls on a post

vars == <<variant, posts, formDraft, currentEditIndex, selectedImageAttribution,
          form, formError, modalOpen, saveTimeout, autoSaveInterval, readers,
          storage, storageAvailable, now, userContainer, defaultContainer,
          lastOp, trip, creates, deletes>>

history == <<lastOp, trip, creates, deletes>>

(***************************************************************************)
(* Bounds of the model                                                     *)
(***************************************************************************)
MaxPosts == 2
MaxReaders == 1
MaxViews == 2

(***************************************************************************)
(* Values                                                                  *)
(***************************************************************************)
Null == [null |-> TRUE]
NoIndex == -1
NoItem == <<>>
MsPerDay == 1000 * 60 * 60 * 24
DraftMaxAgeDays == 7
MaxImageBytes == 5 * 1024 * 1024

FormFields == <<"authorName", "postCategory", "postTitle", "postExcerpt", "postTags">>
\* the required fields with the title checked first
RequiredFieldsTitleFirst == <<"postTitle", "authorName", "postCategory", "postExcerpt">>

RequiredFields == <<"authorName", "postCategory", "postTitle", "postExcerpt">>
FieldSet == {FormFields[k] : k \in 1..Len(FormFields)}

AllowedTypes == {"image/png", "image/jpeg", "image/jpg"}

\* what the user can put into each control
TypedFields == {"postTitle"}
TypedValues(f) == IF f = "postTitle" THEN {<<>>, <<"T">>} ELSE {}

PngFile == [type |-> "image/png", size |-> 1024]
GifFile == [type |-> "image/gif", size |-> 1024]
Files == {PngFile, GifFile}
Indexes == 0..MaxPosts

(***************************************************************************)
(* String helpers: String.prototype.trim, split(','), join(', ')           *)
(***************************************************************************)
RECURSIVE TrimLeft(_)
TrimLeft(s) == IF s # <<>> /\ Head(s) = " " THEN TrimLeft(Tail(s)) ELSE s

RECURSIVE TrimRight(_)
TrimRight(s) ==
    IF s # <<>> /\ s[Len(s)] = " " THEN TrimRight(SubSeq(s, 1, Len(s) - 1)) ELSE s

Trim(s) == TrimRight(TrimLeft(s))

RECURSIVE SplitComma(_, _)
SplitComma(s, cur) ==
    IF s = <<>> THEN <<cur>>
    ELSE IF Head(s) = "," THEN <<cur>> \o SplitComma(Tail(s), <<>>)
    ELSE SplitComma(Tail(s), Append(cur, Head(s)))

RECURSIVE JoinCommaSpace(_)
JoinCommaSpace(ts) ==
    IF ts = <<>> THEN <<>>
    ELSE IF Len(ts) = 1 THEN ts[1]
    ELSE ts[1] \o <<",", " ">> \o JoinCommaSpace(Tail(ts))

RECURSIVE FilterNonEmpty(_)
FilterNonEmpty(ts) ==
    IF ts = <<>> THEN <<>>
    ELSE (IF Head(ts) # <<>> THEN <<Head(ts)>> ELSE <<>>) \o FilterNonEmpty(Tail(ts))

ParseTags(s) ==
    LET parts == SplitComma(s, <<>>)
    IN  FilterNonEmpty([k \in 1..Len(parts) |-> Trim(parts[k])])

(***************************************************************************)
(* Small predicates of the code                                            *)
(***************************************************************************)
\* this.currentEditIndex === null
CreateMode == currentEditIndex = NoIndex

\* this.posts[index] is truthy
HasPost(index) == index >= 0 /\ index < Len(posts)

PostAt(index) == posts[index + 1]

EmptyForm ==
    [authorName |-> <<>>, postCategory |-> <<>>, postTitle |-> <<>>,
     postExcerpt |-> <<>>, postTags |-> <<>>, postImage |-> Null]

hasUnsavedChanges ==
    \/ Trim(form.authorName) # <<>>
    \/ form.postCategory # <<>>
    \/ Trim(form.postTitle) # <<>>
    \/ Trim(form.postExcerpt) # <<>>
    \/ Trim(form.postTags) # <<>>

\* the size test written with >=
validateImageFileBelowLimit(file) ==
    IF file.type \notin AllowedTypes THEN <<"Please upload PNG or JPG only.">>
    ELSE IF file.size >= MaxImageBytes THEN <<"Image must be less than 5MB.">>
    ELSE <<>>

validateImageFile(file) ==
    IF file.type \notin AllowedTypes THEN <<"Please upload PNG or JPG only.">>
    ELSE IF file.size > MaxImageBytes THEN <<"Image must be less than 5MB.">>
    ELSE <<>>

RECURSIVE FirstBlank(_)
FirstBlank(fields) ==
    IF fields = <<>> THEN <<>>
    ELSE IF Trim(form[Head(fields)]) = <<>> THEN <<Head(fields), " is required.">>
    ELSE FirstBlank(Tail(fields))

\* the message validateForm leaves in #formError; <<>> when it returns true
validateForm ==
    LET blank == FirstBlank(RequiredFields)
    IN  IF blank # <<>> THEN blank
        ELSE IF variant = "interval" /\ Trim(form.postExcerpt) = <<>>
             THEN <<"Post excerpt is required.">>
        ELSE IF CreateMode
             THEN IF form.postImage = Null THEN <<"Featured image is required.">>
                  ELSE validateImageFile(form.postImage)
        ELSE IF form.postImage # Null THEN validateImageFile(form.postImage)
        ELSE <<>>

\* reader.result of readAsDataURL
DataURL(file) == [data |-> file]

createPostData(fd, image) ==
    [author |-> Trim(fd.authorName),
     category |-> fd.postCategory,
     title |-> Trim(fd.postTitle),
     image |-> image,
     excerpt |-> Trim(fd.postExcerpt),
     content |-> Trim(fd.postExcerpt),
     tags |-> ParseTags(fd.postTags),
     date |-> now,
     views |-> 0]

\* JSON.stringify / JSON.parse of a draft
Stringify(d) ==
    <<d.authorName, d.postCategory, d.postTitle, d.postExcerpt, d.postTags,
      d.savedAt, d.selectedImageAttribution>>

ParseDraft(s) ==
    [authorName |-> s[1], postCategory |-> s[2], postTitle |-> s[3],
     postExcerpt |-> s[4], postTags |-> s[5], savedAt |-> s[6],
     selectedImageAttribution |-> s[7]]

(***************************************************************************)
(* Rendered nodes: renderPosts and the static posts of the page            *)
(***************************************************************************)
\* the <article> renderPosts writes for the post at index: data-id, data-date
\* and the h3 text (its .post-date text is never read, it always has data-date)
UserNode(index, post) ==
    [kind |-> "user", id |-> index, title |-> post.title, date |-> <<post.date>>,
     dateText |-> <<>>]

\* userPostsContainer.innerHTML after renderPosts
Rendered(ps) == [k \in 1..Len(ps) |-> UserNode(k - 1, ps[k])]

renderPosts == userContainer' = Rendered(posts')

\* the posts written in the page: the first carries its date as .post-date
\* text only (the count of days stands for "Aug 16, 2024"), the second as
\* data-date
StaticPosts ==
    << [kind |-> "static", id |-> 0, title |-> <<"U">>, date |-> <<>>,
        dateText |-> <<1>>],
       [kind |-> "static", id |-> 1, title |-> <<"A">>, date |-> <<2 * MsPerDay>>,
        dateText |-> <<2>>] >>

(***************************************************************************)
(* Initial state: after new BlogManager() and init().  sessionStorage      *)
(* outlives a reload of the tab, so the item may hold a draft written by   *)
(* the previous load of the page.                                          *)
(***************************************************************************)
DraftOf(author, category, title, excerpt, tags) ==
    [authorName |-> author, postCategory |-> category, postTitle |-> title,
     postExcerpt |-> excerpt, postTags |-> tags, savedAt |-> 0,
     selectedImageAttribution |-> Null]

EarlierDraft == DraftOf(<<"A">>, <<"c">>, <<"T">>, <<"E">>, <<>>)

\* the same draft with two tags typed as "x,y"
TaggedDraft == DraftOf(<<"A">>, <<"c">>, <<"T">>, <<"E">>, <<"x", ",", "y">>)

\* the same draft saved while an Unsplash image was selected
AttributedDraft ==
    [EarlierDraft EXCEPT !.selectedImageAttribution = [photographer |-> "p"]]

\* drafts with blank and whitespace-only required fields
BlankishDrafts ==
    {DraftOf(a, c, <<"T">>, e, <<>>) :
        a \in {<<>>, <<" ">>, <<"A">>}, c \in {<<>>, <<"c">>}, e \in {<<>>, <<"E">>}}

\* a draft variant v can have written: blog.js saves only what
\* hasUnsavedChanges accepts, part_000 saves whatever the form holds
Storable(v, d) ==
    \/ v = "interval"
    \/ Trim(d.authorName) # <<>>
    \/ d.postCategory # <<>>
    \/ Trim(d.postTitle) # <<>>
    \/ Trim(d.postExcerpt) # <<>>
    \/ Trim(d.postTags) # <<>>

NoTrip == [phase |-> 0, index |-> NoIndex, typed |-> FALSE, saved |-> FALSE]

InitWith(earlierDrafts) ==
    /\ variant \in {"dedup", "interval"}
    /\ posts = <<>>
    /\ formDraft = Null
    /\ currentEditIndex = NoIndex
    /\ selectedImageAttribution = Null
    /\ form = EmptyForm
    /\ formError = <<>>
    /\ modalOpen = FALSE
    /\ saveTimeout = [f \in FieldSet |-> FALSE]
    /\ autoSaveInterval = (variant = "interval")
    /\ readers = <<>>
    /\ storageAvailable \in BOOLEAN
    /\ storage \in (IF storageAvailable
                    THEN {NoItem} \cup
                         {Stringify(d) : d \in {e \in earlierDrafts : Storable(variant, e)}}
                    ELSE {NoItem})
    /\ now = 0
    /\ userContainer = <<>>
    /\ defaultContainer = StaticPosts
    /\ lastOp = "init"
    /\ trip = NoTrip
    /\ creates = 0
    /\ deletes = 0

Init == InitWith({EarlierDraft})

(***************************************************************************)
(* Draft store: saveFormDraft, clearFormDraft, loadFormDraft               *)
(***************************************************************************)
\* formData built by saveFormDraft from the form controls
DraftOfForm ==
    [authorName |-> form.authorName, postCategory |-> form.postCategory,
     postTitle |-> form.postTitle, postExcerpt |-> form.postExcerpt,
     postTags |-> form.postTags, savedAt |-> now,
     selectedImageAttribution |-> selectedImageAttribution]

\* blog.js only: "Check if data has actually changed from last save"
SameAsLastSave ==
    /\ formDraft # Null
    /\ Stringify(DraftOfForm) = Stringify([formDraft EXCEPT !.savedAt = formDraft.savedAt])

\* saveFormDraft reaches its write
SaveWrites ==
    /\ CreateMode
    /\ variant = "dedup" => (hasUnsavedChanges /\ ~SameAsLastSave)

\* setOk: sessionStorage.setItem does not throw
saveFormDraft(setOk) ==
    /\ formDraft' = IF SaveWrites THEN DraftOfForm ELSE formDraft
    /\ storage' = IF SaveWrites /\ storageAvailable /\ setOk
                  THEN Stringify(DraftOfForm) ELSE storage

\* the item left by clearFormDraft; removeOk: removeItem does not throw
RemovedItem(removeOk) == IF storageAvailable /\ removeOk THEN NoItem ELSE storage

clearFormDraft(removeOk) ==
    /\ formDraft' = Null
    /\ selectedImageAttribution' = Null
    /\ storage' = RemovedItem(removeOk)

\* this.formDraft after the sessionStorage read of loadFormDraft
LoadedDraft ==
    IF storageAvailable /\ storage # NoItem THEN ParseDraft(storage) ELSE formDraft

\* the age test written with >=
DraftExpiredAtLimit(d) == (now - d.savedAt) >= DraftMaxAgeDays * MsPerDay

\* daysDiff > 7
DraftExpired(d) == (now - d.savedAt) > DraftMaxAgeDays * MsPerDay

\* field.value after "if (field && formData[key]) field.value = formData[key]"
Hydrate(base, d) ==
    [f \in DOMAIN base |->
        IF f \in FieldSet /\ d[f] # <<>> THEN d[f] ELSE base[f]]

(***************************************************************************)
(* Autosave triggers                                                       *)
(***************************************************************************)
\* a trigger callback that writes the draft itself, in any mode
AutoSaveInAnyMode(setOk) ==
    /\ formDraft' = DraftOfForm
    /\ storage' = IF storageAvailable /\ setOk THEN Stringify(DraftOfForm) ELSE storage

\* body of every trigger callback: if (currentEditIndex === null) saveFormDraft()
AutoSave(setOk) ==
    IF CreateMode THEN saveFormDraft(setOk)
    ELSE UNCHANGED <<formDraft, storage>>

PendingTimers == {f \in FieldSet : saveTimeout[f]}

\* field.oninput: the user changes a tracked field; the debounce is re-armed
UserInput(f, v) ==
    /\ modalOpen
    /\ form' = [form EXCEPT ![f] = v]
    /\ saveTimeout' = [saveTimeout EXCEPT ![f] = TRUE]
    /\ UNCHANGED <<variant, posts, userContainer, defaultContainer,
                   formDraft, currentEditIndex, selectedImageAttribution,
                   formError, modalOpen, autoSaveInterval, readers, storage,
                   storageAvailable, now>>

\* field.onblur: blog.js re-arms the field's timer (1 s), part_000 saves at once
FieldBlur(f, setOk) ==
    /\ modalOpen
    /\ IF variant = "dedup"
       THEN /\ saveTimeout' = [saveTimeout EXCEPT ![f] = TRUE]
            /\ UNCHANGED <<formDraft, storage>>
       ELSE /\ AutoSave(setOk)
            /\ UNCHANGED saveTimeout
    /\ UNCHANGED <<variant, posts, userContainer, defaultContainer,
                   currentEditIndex, selectedImageAttribution, form,
                   formError, modalOpen, autoSaveInterval, readers,
                   storageAvailable, now>>

\* field.onchange (part_000 only)
FieldChange(f, setOk) ==
    /\ variant = "interval"
    /\ modalOpen
    /\ AutoSave(setOk)
    /\ UNCHANGED <<variant, posts, userContainer, defaultContainer,
                   currentEditIndex, selectedImageAttribution, form,
                   formError, modalOpen, saveTimeout, autoSaveInterval, readers,
                   storageAvailable, now>>

\* the setTimeout callback of a field fires
SaveTimeoutFires(f, setOk) ==
    /\ saveTimeout[f]
    /\ saveTimeout' = [saveTimeout EXCEPT ![f] = FALSE]
    /\ AutoSave(setOk)
    /\ UNCHANGED <<variant, posts, userContainer, defaultContainer,
                   currentEditIndex, selectedImageAttribution, form,
                   formError, modalOpen, autoSaveInterval, readers,
                   storageAvailable, now>>

\* the setInterval callback of setupEnhancedAutoSave fires (part_000 only)
IntervalTick(setOk) ==
    /\ autoSaveInterval
    /\ AutoSave(setOk)
    /\ UNCHANGED <<variant, posts, userContainer, defaultContainer,
                   currentEditIndex, selectedImageAttribution, form,
                   formError, modalOpen, saveTimeout, autoSaveInterval, readers,
                   storageAvailable, now>>

\* visibilitychange with document.hidden (part_000 only)
VisibilityHidden(setOk) ==
    /\ variant = "interval"
    /\ AutoSave(setOk)
    /\ UNCHANGED <<variant, posts, userContainer, defaultContainer,
                   currentEditIndex, selectedImageAttribution, form,
                   formError, modalOpen, saveTimeout, autoSaveInterval, readers,
                   storageAvailable, now>>

(***************************************************************************)
(* Edit session: openCreateModal, openEditModal, closeModals               *)
(***************************************************************************)
\* openCreateModal without blogForm.reset(): the draft is laid over whatever
\* the controls hold
OpenCreateModalWithoutReset(removeOk) ==
    /\ currentEditIndex' = NoIndex
    /\  LET d == LoadedDraft
        IN  IF d = Null
            THEN UNCHANGED <<form, formDraft, selectedImageAttribution, storage>>
            ELSE IF DraftExpired(d)
            THEN /\ UNCHANGED form
                 /\ clearFormDraft(removeOk)
            ELSE /\ form' = Hydrate(form, d)
                 /\ formDraft' = d
                 /\ selectedImageAttribution' =
                        IF d.selectedImageAttribution # Null
                        THEN d.selectedImageAttribution ELSE selectedImageAttribution
                 /\ UNCHANGED storage
    /\ modalOpen' = TRUE
    /\ UNCHANGED <<variant, posts, userContainer, defaultContainer,
                   formError, saveTimeout, autoSaveInterval, readers,
                   storageAvailable, now>>

\* blogForm.reset() and hideImagePreview() empty every control, then
\* loadFormDraft hydrates from the stored draft unless it is absent or expired
OpenCreateModal(removeOk) ==
    /\ currentEditIndex' = NoIndex
    /\  LET d == LoadedDraft
        IN  IF d = Null
            THEN /\ form' = EmptyForm
                 /\ UNCHANGED <<formDraft, selectedImageAttribution, storage>>
            ELSE IF DraftExpired(d)
            THEN /\ form' = EmptyForm
                 /\ clearFormDraft(removeOk)
            ELSE /\ form' = Hydrate(EmptyForm, d)
                 /\ formDraft' = d
                 /\ selectedImageAttribution' =
                        IF d.selectedImageAttribution # Null
                        THEN d.selectedImageAttribution ELSE selectedImageAttribution
                 /\ UNCHANGED storage
    /\ modalOpen' = TRUE
    /\ UNCHANGED <<variant, posts, userContainer, defaultContainer,
                   formError, saveTimeout, autoSaveInterval, readers,
                   storageAvailable, now>>

\* the copy with the title assignment left out
FormOfPostWithoutTitle(post) ==
    [form EXCEPT !.authorName = post.author,
                 !.postCategory = post.category,
                 !.postExcerpt = post.excerpt,
                 !.postTags = JoinCommaSpace(post.tags)]

\* the controls after openEditModal has copied the post into them
FormOfPost(post) ==
    [form EXCEPT !.authorName = post.author,
                 !.postCategory = post.category,
                 !.postTitle = post.title,
                 !.postExcerpt = post.excerpt,
                 !.postTags = JoinCommaSpace(post.tags)]

\* the assignment to currentEditIndex precedes the "if (!post) return"
OpenEditModal(index, removeOk) ==
    /\ currentEditIndex' = index
    /\ IF ~HasPost(index)
       THEN UNCHANGED <<formDraft, selectedImageAttribution, storage, form, modalOpen>>
       ELSE /\ clearFormDraft(removeOk)
            /\ form' = FormOfPost(PostAt(index))
            /\ modalOpen' = TRUE
    /\ UNCHANGED <<variant, posts, userContainer, defaultContainer,
                   formError, saveTimeout, autoSaveInterval, readers,
                   storageAvailable, now>>

\* state left by closeModals; part_000 also clears the interval
ClosedInterval == IF variant = "interval" THEN FALSE ELSE autoSaveInterval

closeModals ==
    /\ modalOpen' = FALSE
    /\ currentEditIndex' = NoIndex
    /\ autoSaveInterval' = ClosedInterval

CloseModals ==
    /\ closeModals
    /\ UNCHANGED <<variant, posts, userContainer, defaultContainer,
                   formDraft, selectedImageAttribution, form, formError,
                   saveTimeout, readers, storage, storageAvailable, now>>

(***************************************************************************)
(* Post store: createPost, updatePost, deletePost, openPostDetail          *)
(***************************************************************************)
\* the object unshifted by createPost
NewPost(postData) ==
    postData @@ [dateEdited |-> <<>>, imageAttribution |-> selectedImageAttribution]

\* the merge without its views entry: { ...existingPost, ...postData, dateEdited: now }
MergedPostWithoutViews(existingPost, postData) ==
    [k \in DOMAIN existingPost |->
        IF k = "dateEdited" THEN <<now>>
        ELSE IF k \in DOMAIN postData THEN postData[k]
        ELSE existingPost[k]]

\* { ...existingPost, ...postData, views: existingPost.views || 0, dateEdited: now }
MergedPost(existingPost, postData) ==
    [k \in DOMAIN existingPost |->
        IF k = "views" THEN existingPost.views
        ELSE IF k = "dateEdited" THEN <<now>>
        ELSE IF k \in DOMAIN postData THEN postData[k]
        ELSE existingPost[k]]

\* this.posts after updatePost(index, postData)
UpdatedPosts(index, postData) ==
    IF ~HasPost(index) THEN posts
    ELSE [posts EXCEPT ![index + 1] = MergedPost(PostAt(index), postData)]

createPost(postData, removeOk) ==
    /\ posts' = <<NewPost(postData)>> \o posts
    /\ renderPosts
    /\ clearFormDraft(removeOk)

\* updatePost returns before renderPosts when the index has no post
updatePost(index, postData) ==
    /\ posts' = UpdatedPosts(index, postData)
    /\ IF HasPost(index) THEN renderPosts ELSE UNCHANGED userContainer

\* createPost called on its own
CreatePost(postData, removeOk) ==
    /\ Len(posts) < MaxPosts
    /\ createPost(postData, removeOk)
    /\ UNCHANGED <<variant, defaultContainer, currentEditIndex, form, formError,
                   modalOpen, saveTimeout, autoSaveInterval, readers, storageAvailable,
                   now>>

\* updatePost called on its own
UpdatePost(index, postData) ==
    /\ updatePost(index, postData)
    /\ UNCHANGED <<variant, defaultContainer, formDraft, currentEditIndex,
                   selectedImageAttribution, form, formError, modalOpen, saveTimeout,
                   autoSaveInterval, readers, storage, storageAvailable, now>>

RemoveAt(seq, k) == SubSeq(seq, 1, k - 1) \o SubSeq(seq, k + 1, Len(seq))

\* deletePost without its check of this.posts[index]: splice(index, 1) counts a
\* negative index from the end
DeletePostUnchecked(index, confirmed) ==
    /\ IF confirmed /\ posts # <<>> /\ index < Len(posts)
       THEN /\ posts' = RemoveAt(posts, IF index < 0 THEN Len(posts) + index + 1
                                                    ELSE index + 1)
            /\ renderPosts
       ELSE UNCHANGED <<posts, userContainer>>
    /\ UNCHANGED <<variant, defaultContainer, formDraft, currentEditIndex,
                   selectedImageAttribution, form, formError, modalOpen, saveTimeout,
                   autoSaveInterval, readers, storage, storageAvailable, now>>

\* confirmed: the answer to confirm(); only asked when the index has a post
DeletePost(index, confirmed) ==
    /\ IF HasPost(index) /\ confirmed
       THEN /\ posts' = RemoveAt(posts, index + 1)
            /\ renderPosts
       ELSE UNCHANGED <<posts, userContainer>>
    /\ UNCHANGED <<variant, defaultContainer, formDraft, currentEditIndex,
                   selectedImageAttribution, form, formError, modalOpen, saveTimeout,
                   autoSaveInterval, readers, storage, storageAvailable, now>>

\* openPostDetail counting the view on the first post, whatever node was opened
OpenPostDetailOfFirstPost(index) ==
    /\ IF HasPost(index)
       THEN /\ PostAt(0).views < MaxViews
            /\ posts' = [posts EXCEPT ![1].views = @ + 1]
       ELSE UNCHANGED posts
    /\ UNCHANGED <<variant, userContainer, defaultContainer, formDraft, currentEditIndex,
                   selectedImageAttribution, form, formError, modalOpen, saveTimeout,
                   autoSaveInterval, readers, storage, storageAvailable, now>>

\* openPostDetail(element, 'user') on the node whose data-id is index
OpenPostDetail(index) ==
    /\ IF HasPost(index)
       THEN /\ PostAt(index).views < MaxViews
            /\ posts' = [posts EXCEPT ![index + 1].views = @ + 1]
       ELSE UNCHANGED posts
    /\ UNCHANGED <<variant, userContainer, defaultContainer, formDraft, currentEditIndex,
                   selectedImageAttribution, form, formError, modalOpen, saveTimeout,
                   autoSaveInterval, readers, storage, storageAvailable, now>>

(***************************************************************************)
(* Submit: handleSubmit and the FileReader callbacks                       *)
(***************************************************************************)
\* imageFile && imageFile.size > 0, on the FormData snapshot
HasImageFile(fd) == fd.postImage # Null /\ fd.postImage.size > 0

\* postData of the branch "Updating post without new image"
PostDataKeepingImage(index) ==
    LET postData == createPostData(form, Null)
    IN  IF HasPost(index) /\ PostAt(index).image # Null
        THEN [postData EXCEPT !.image = PostAt(index).image]
        ELSE postData

\* handleSubmit with at most maxReaders file reads pending at a time
HandleSubmitWithin(maxReaders) ==
    /\ modalOpen
    /\ IF validateForm # <<>>
       THEN /\ formError' = validateForm
            /\ UNCHANGED <<posts, userContainer, currentEditIndex, modalOpen,
                           autoSaveInterval, readers>>
       ELSE IF HasImageFile(form)
       THEN /\ Len(readers) < maxReaders
            /\ formError' = <<>>
            /\ readers' = Append(readers, [formData |-> form, mode |-> currentEditIndex])
            /\ UNCHANGED <<posts, userContainer, currentEditIndex, modalOpen,
                           autoSaveInterval>>
       ELSE IF ~CreateMode
       THEN /\ formError' = <<>>
            /\ updatePost(currentEditIndex, PostDataKeepingImage(currentEditIndex))
            /\ closeModals
            /\ UNCHANGED readers
       ELSE /\ formError' = <<"Please select an image file.">>
            /\ UNCHANGED <<posts, userContainer, currentEditIndex, modalOpen,
                           autoSaveInterval, readers>>
    /\ UNCHANGED <<variant, defaultContainer, formDraft, selectedImageAttribution, form,
                   saveTimeout, storage, storageAvailable, now>>

HandleSubmit == HandleSubmitWithin(MaxReaders)

\* reader.onload of the k-th pending reader: the mode is read when it runs
ReaderOnload(k, removeOk) ==
    /\ k \in 1..Len(readers)
    /\ LET fd == readers[k].formData
           postData == createPostData(fd, DataURL(fd.postImage))
       IN  IF ~CreateMode
           THEN /\ updatePost(currentEditIndex, postData)
                /\ UNCHANGED <<formDraft, selectedImageAttribution, storage>>
           ELSE /\ Len(posts) < MaxPosts
                /\ createPost(postData, removeOk)
    /\ closeModals
    /\ readers' = RemoveAt(readers, k)
    /\ UNCHANGED <<variant, defaultContainer, form, formError, saveTimeout,
                   storageAvailable, now>>

\* reader.onerror of the k-th pending reader
ReaderOnerror(k) ==
    /\ k \in 1..Len(readers)
    /\ formError' = <<"Error reading image file.">>
    /\ readers' = RemoveAt(readers, k)
    /\ UNCHANGED <<variant, posts, userContainer, defaultContainer,
                   formDraft, currentEditIndex, selectedImageAttribution,
                   form, modalOpen, saveTimeout, autoSaveInterval, storage,
                   storageAvailable, now>>

(***************************************************************************)
(* Image control and explicit clear                                        *)
(***************************************************************************)
\* postImage.onchange: the user picked file; a file that fails
\* validateImageFile is taken out of the control again
HandleImageUpload(file) ==
    /\ modalOpen
    /\ IF validateImageFile(file) # <<>>
       THEN /\ form' = [form EXCEPT !.postImage = Null]
            /\ formError' = validateImageFile(file)
       ELSE /\ form' = [form EXCEPT !.postImage = file]
            /\ UNCHANGED formError
    /\ UNCHANGED <<variant, posts, userContainer, defaultContainer,
                   formDraft, currentEditIndex, selectedImageAttribution,
                   modalOpen, saveTimeout, autoSaveInterval, readers, storage,
                   storageAvailable, now>>

RemoveImage ==
    /\ modalOpen
    /\ form' = [form EXCEPT !.postImage = Null]
    /\ selectedImageAttribution' = Null
    /\ UNCHANGED <<variant, posts, userContainer, defaultContainer,
                   formDraft, currentEditIndex, formError, modalOpen,
                   saveTimeout, autoSaveInterval, readers, storage, storageAvailable, now>>

ClearFormAndDraft(confirmed, removeOk) ==
    /\ IF confirmed
       THEN /\ form' = EmptyForm
            /\ clearFormDraft(removeOk)
       ELSE UNCHANGED <<form, formDraft, selectedImageAttribution, storage>>
    /\ UNCHANGED <<variant, posts, userContainer, defaultContainer,
                   currentEditIndex, formError, modalOpen, saveTimeout,
                   autoSaveInterval, readers, storageAvailable, now>>

(***************************************************************************)
(* Specification: every handler, with the user typing in the title only    *)
(* and the other fields coming from a restored draft or an edited post.    *)
(* sessionStorage calls succeed.  No history is recorded.                  *)
(***************************************************************************)
Next ==
    \/ \E f \in TypedFields : \E v \in TypedValues(f) :
            UserInput(f, v) /\ UNCHANGED history
    \/ \E f \in TypedFields : FieldBlur(f, TRUE) /\ UNCHANGED history
    \/ \E f \in TypedFields : FieldChange(f, TRUE) /\ UNCHANGED history
    \/ \E f \in FieldSet : SaveTimeoutFires(f, TRUE) /\ UNCHANGED history
    \/ IntervalTick(TRUE) /\ UNCHANGED history
    \/ VisibilityHidden(TRUE) /\ UNCHANGED history
    \/ OpenCreateModal(TRUE) /\ UNCHANGED history
    \/ \E index \in Indexes : OpenEditModal(index, TRUE) /\ UNCHANGED history
    \/ CloseModals /\ UNCHANGED history
    \/ \E index \in Indexes : \E confirmed \in BOOLEAN :
            DeletePost(index, confirmed) /\ UNCHANGED history
    \/ HandleSubmit /\ UNCHANGED history
    \/ \E k \in 1..MaxReaders : ReaderOnload(k, TRUE) /\ UNCHANGED history
    \/ \E k \in 1..MaxReaders : ReaderOnerror(k) /\ UNCHANGED history
    \/ \E file \in Files : HandleImageUpload(file) /\ UNCHANGED history
    \/ RemoveImage /\ UNCHANGED history
    \/ \E confirmed \in BOOLEAN : ClearFormAndDraft(confirmed, TRUE) /\ UNCHANGED history

Spec == Init /\ [][Next]_vars

(***************************************************************************)
(* Specification with the class of the last handler recorded in lastOp:    *)
(* "autosave" for a trigger callback that reached its save, "published"    *)
(* for a reader.onload that created a post.  The user waits for a pending  *)
(* file read before submitting again.                                      *)
(***************************************************************************)
Op(class) == lastOp' = class /\ UNCHANGED <<trip, creates, deletes>>

NextOps ==
    \/ \E f \in TypedFields : \E v \in TypedValues(f) : UserInput(f, v) /\ Op("other")
    \/ \E f \in TypedFields :
            FieldBlur(f, TRUE) /\ Op(IF variant = "dedup" THEN "other" ELSE "autosave")
    \/ \E f \in TypedFields : FieldChange(f, TRUE) /\ Op("autosave")
    \/ \E f \in FieldSet : SaveTimeoutFires(f, TRUE) /\ Op("autosave")
    \/ IntervalTick(TRUE) /\ Op("autosave")
    \/ VisibilityHidden(TRUE) /\ Op("autosave")
    \/ OpenCreateModal(TRUE) /\ Op("other")
    \/ \E index \in Indexes : OpenEditModal(index, TRUE) /\ Op("other")
    \/ CloseModals /\ Op("other")
    \/ \E index \in Indexes : \E confirmed \in BOOLEAN :
            DeletePost(index, confirmed) /\ Op("other")
    \/ readers = <<>> /\ HandleSubmit /\ Op("other")
    \/ \E k \in 1..MaxReaders :
            ReaderOnload(k, TRUE) /\ Op(IF CreateMode THEN "published" ELSE "other")
    \/ \E k \in 1..MaxReaders : ReaderOnerror(k) /\ Op("other")
    \/ \E file \in Files : HandleImageUpload(file) /\ Op("other")
    \/ RemoveImage /\ Op("other")
    \/ \E confirmed \in BOOLEAN : ClearFormAndDraft(confirmed, TRUE) /\ Op("other")

SpecOps == Init /\ [][NextOps]_vars

(***************************************************************************)
(* Claims checked under Spec                                               *)
(***************************************************************************)
\* C1: a submit is applied in the mode in effect when handleSubmit validated
\* it (kept in the reader's mode field): accepted in Create mode it prepends
\* one post and changes no other, accepted in Editing(i) it creates no post
\* and changes no post but i, whatever ran before reader.onload.
C1_SubmitAppliedInValidatedMode ==
    [][\A k \in 1..MaxReaders :
          ReaderOnload(k, TRUE) =>
              IF readers[k].mode = NoIndex
              THEN /\ Len(posts') = Len(posts) + 1
                   /\ Tail(posts') = posts
              ELSE /\ Len(posts') = Len(posts)
                   /\ \A j \in 1..Len(posts) :
                          j # readers[k].mode + 1 => posts'[j] = posts[j]
      ]_vars

\* C2: a draft is held only in Create mode, and the Draft Store is empty
\* right after openEditModal(index) and right after a publish.
C2_DraftOnlyInCreateMode ==
    /\ [](formDraft # Null => currentEditIndex = NoIndex)
    /\ [][(\E index \in Indexes : OpenEditModal(index, TRUE)) => formDraft' = Null]_vars
    /\ [][(\E k \in 1..MaxReaders : currentEditIndex = NoIndex /\ ReaderOnload(k, TRUE))
              => formDraft' = Null]_vars

\* C4: deletePost removing the post being edited closes the edit session.
C4_DeleteOfEditedPostClosesSession ==
    [][\A index \in Indexes :
          (currentEditIndex = index /\ HasPost(index) /\ DeletePost(index, TRUE))
              => currentEditIndex' # index
      ]_vars

\* C5: closeModals and a transition to Editing leave no debounce or blur
\* timer pending.
C5_TimersCancelledOnTransition ==
    [][(CloseModals \/ \E index \in Indexes : HasPost(index) /\ OpenEditModal(index, TRUE))
          => PendingTimers' = {}
      ]_vars

\* C10: openEditModal(index) with no post at index changes neither the
\* session mode, nor the Draft Store, nor the form.
C10_OpenEditInvalidIndexIsNoOp ==
    [][\A index \in Indexes :
          (~HasPost(index) /\ OpenEditModal(index, TRUE))
              => UNCHANGED <<currentEditIndex, formDraft, storage, form>>
      ]_vars

(***************************************************************************)
(* Claims checked under SpecOps                                            *)
(***************************************************************************)
\* C3: an autosave trigger that fires right after a publish, with no user
\* input and no reopening in between, leaves the Draft Store empty.
C3_NoDraftFromPublishedContent ==
    [][(lastOp = "published" /\ lastOp' = "autosave")
          => (formDraft' = Null /\ storage' = NoItem)
      ]_vars

\* C9: an autosave trigger that fires while the session is Editing changes
\* neither formDraft nor the 'blogFormDraft' item.
C9_AutosaveWhileEditingIsNoOp ==
    [][(currentEditIndex # NoIndex /\ lastOp' = "autosave")
          => UNCHANGED <<formDraft, storage>>
      ]_vars

\* a trigger has just fired in an edit session on a live post whose form
\* holds content a save would have written
C9_Witness ==
    /\ lastOp = "autosave"
    /\ currentEditIndex # NoIndex
    /\ HasPost(currentEditIndex)
    /\ hasUnsavedChanges
    /\ formDraft = Null
    /\ storage = NoItem

(***************************************************************************)
(* Specification with an edit / create / edit round trip recorded in trip: *)
(* phase 1 after openEditModal(i) on a post, phase 2 after the             *)
(* openCreateModal that follows, phase 3 after the openEditModal(i) that   *)
(* follows that.  Typing, image selection, the explicit clear and the      *)
(* autosave triggers may run in between; any other handler ends the trip.  *)
(* The restored draft carries tags.  The user waits for a pending file     *)
(* read before submitting again.                                           *)
(***************************************************************************)
Trip(t) == trip' = t /\ UNCHANGED <<lastOp, creates, deletes>>

\* phase 3 is also the start of the next round trip
Restarted == IF trip.phase = 3
             THEN [trip EXCEPT !.phase = 1, !.typed = FALSE, !.saved = FALSE]
             ELSE trip

TripAfterInput == IF trip.phase = 2 THEN [trip EXCEPT !.typed = TRUE] ELSE Restarted

TripAfterTrigger ==
    IF trip.phase = 2 /\ formDraft' # formDraft THEN [trip EXCEPT !.saved = TRUE]
    ELSE Restarted

TripAfterCreate ==
    IF trip.phase \in {1, 3}
    THEN [phase |-> 2, index |-> trip.index, typed |-> FALSE, saved |-> FALSE]
    ELSE NoTrip

TripAfterEdit(index) ==
    IF ~HasPost(index) THEN NoTrip
    ELSE IF trip.phase = 2 /\ trip.index = index THEN [trip EXCEPT !.phase = 3]
    ELSE [phase |-> 1, index |-> index, typed |-> FALSE, saved |-> FALSE]

InitTrip == InitWith({TaggedDraft})

NextTrip ==
    \/ \E f \in TypedFields : \E v \in TypedValues(f) :
            UserInput(f, v) /\ Trip(TripAfterInput)
    \/ \E f \in TypedFields : FieldBlur(f, TRUE) /\ Trip(TripAfterTrigger)
    \/ \E f \in TypedFields : FieldChange(f, TRUE) /\ Trip(TripAfterTrigger)
    \/ \E f \in FieldSet : SaveTimeoutFires(f, TRUE) /\ Trip(TripAfterTrigger)
    \/ IntervalTick(TRUE) /\ Trip(TripAfterTrigger)
    \/ VisibilityHidden(TRUE) /\ Trip(TripAfterTrigger)
    \/ OpenCreateModal(TRUE) /\ Trip(TripAfterCreate)
    \/ \E index \in Indexes : OpenEditModal(index, TRUE) /\ Trip(TripAfterEdit(index))
    \/ CloseModals /\ Trip(NoTrip)
    \/ \E index \in Indexes : \E confirmed \in BOOLEAN :
            DeletePost(index, confirmed) /\ Trip(NoTrip)
    \/ readers = <<>> /\ HandleSubmit /\ Trip(NoTrip)
    \/ \E k \in 1..MaxReaders : ReaderOnload(k, TRUE) /\ Trip(NoTrip)
    \/ \E k \in 1..MaxReaders : ReaderOnerror(k) /\ Trip(NoTrip)
    \/ \E file \in Files : HandleImageUpload(file) /\ Trip(Restarted)
    \/ RemoveImage /\ Trip(Restarted)
    \/ \E confirmed \in BOOLEAN : ClearFormAndDraft(confirmed, TRUE) /\ Trip(Restarted)

SpecTrip == InitTrip /\ [][NextTrip]_vars

\* C6: after openEditModal(i), openCreateModal(), openEditModal(i) on a post
\* i the author, category, title and excerpt controls hold the post's stored
\* values and the tags control parses to the post's stored tags.
C6_EditCreateEditRestoresPost ==
    trip.phase = 3 =>
        /\ HasPost(trip.index)
        /\ form.authorName = PostAt(trip.index).author
        /\ form.postCategory = PostAt(trip.index).category
        /\ form.postTitle = PostAt(trip.index).title
        /\ form.postExcerpt = PostAt(trip.index).excerpt
        /\ ParseTags(form.postTags) = PostAt(trip.index).tags

\* the round trip is complete, the user typed in Create mode and a trigger
\* saved a draft there; the post has tags
C6_Witness ==
    /\ trip.phase = 3
    /\ trip.typed
    /\ trip.saved
    /\ HasPost(trip.index)
    /\ Len(PostAt(trip.index).tags) = 2

(***************************************************************************)
(* Specification of the Post Store alone: createPost, updatePost,          *)
(* deletePost and openPostDetail called in any order, with post data as    *)
(* createPostData builds it from an accepted form.  creates counts the     *)
(* createPost calls, deletes the deletePost calls that were confirmed on   *)
(* an index holding a post.                                                *)
(***************************************************************************)
MaxCreates == 3

SubmittedForms ==
    {[EmptyForm EXCEPT !.authorName = <<"A">>, !.postCategory = <<"c">>,
                       !.postTitle = t, !.postExcerpt = <<"E">>, !.postImage = PngFile] :
        t \in {<<"T">>, <<"U">>}}

PostDatas == {createPostData(fd, DataURL(fd.postImage)) : fd \in SubmittedForms}

\* the index arguments of the store's methods: the rendered positions, one past
\* the end and a negative one
StoreIndexes == -1..MaxPosts

\* whether the method was called with an index the store does not hold
StoreOp(index) == IF index \in 0..(Len(posts) - 1) THEN "store" ELSE "outOfRange"

NextStore ==
    \/ \E postData \in PostDatas :
            /\ creates < MaxCreates
            /\ CreatePost(postData, TRUE)
            /\ creates' = creates + 1
            /\ lastOp' = "store"
            /\ UNCHANGED <<trip, deletes>>
    \/ \E index \in StoreIndexes : \E postData \in PostDatas :
            /\ UpdatePost(index, postData)
            /\ lastOp' = StoreOp(index)
            /\ UNCHANGED <<trip, creates, deletes>>
    \/ \E index \in StoreIndexes : \E confirmed \in BOOLEAN :
            /\ DeletePost(index, confirmed)
            /\ deletes' = IF confirmed /\ HasPost(index) THEN deletes + 1 ELSE deletes
            /\ lastOp' = StoreOp(index)
            /\ UNCHANGED <<trip, creates>>
    \/ \E index \in StoreIndexes :
            /\ OpenPostDetail(index)
            /\ lastOp' = StoreOp(index)
            /\ UNCHANGED <<trip, creates, deletes>>

SpecStore == Init /\ [][NextStore]_vars

\* a post that is in the store before and after a step has not lost views:
\* createPost shifts the posts up by one, a counted delete drops one position
SurvivorsKeepViews ==
    IF creates' # creates
    THEN /\ Len(posts') = Len(posts) + 1
         /\ \A j \in 1..Len(posts) : posts'[j + 1].views >= posts[j].views
    ELSE IF deletes' # deletes
    THEN /\ Len(posts') = Len(posts) - 1
         /\ \E d \in 1..Len(posts) : \A j \in 1..Len(posts') :
                posts'[j].views >= (IF j < d THEN posts[j] ELSE posts[j + 1]).views
    ELSE /\ Len(posts') = Len(posts)
         /\ \A j \in 1..Len(posts) : posts'[j].views >= posts[j].views

\* C7: the Post Store length is the number of creates minus the number of
\* confirmed in-range deletes, and no surviving post's views decreases.
C7_LengthAndViews ==
    /\ [](Len(posts) = creates - deletes)
    /\ [][SurvivorsKeepViews]_vars

\* three creates and two counted deletes later, the surviving post has been
\* viewed and updated
C7_Witness ==
    /\ creates = 3
    /\ deletes = 2
    /\ Len(posts) = 1
    /\ posts[1].views = 1
    /\ posts[1].dateEdited # <<>>

\* C11: updatePost, deletePost and the view increment of openPostDetail, called
\* with an index outside the Post Store, leave the store (length, order and
\* every field of every post) unchanged.
C11_OutOfRangeIndexIsNoOp ==
    [][lastOp' = "outOfRange" => posts' = posts]_vars

\* an out-of-range call has been made on a store that holds posts
C11_Witness ==
    lastOp = "outOfRange" /\ Len(posts) = MaxPosts /\ deletes > 0

\* C19: each view increment on the user post at a valid index i raises that
\* post's views by exactly 1 and changes no other post and no other field; two
\* increments on a freshly created post (views = 0) give views = 2.
C19_ViewIncrementAddsOne ==
    [][\A i \in 0..(Len(posts) - 1) :
          OpenPostDetail(i) =>
              /\ Len(posts') = Len(posts)
              /\ posts'[i + 1].views = posts[i + 1].views + 1
              /\ \A k \in DOMAIN posts[i + 1] \ {"views"} :
                     posts'[i + 1][k] = posts[i + 1][k]
              /\ \A j \in 1..Len(posts) : j # i + 1 => posts'[j] = posts[j]
      ]_vars

\* the second of two posts, created with views = 0, has been opened twice and
\* the first never
C19_Witness ==
    /\ lastOp = "store"
    /\ Len(posts) = 2
    /\ posts[1].views = 0
    /\ posts[2].views = 2

(***************************************************************************)
(* Specification with blank and whitespace-only required fields in the     *)
(* restored draft; lastOp is "submit" after handleSubmit.  The user waits  *)
(* for a pending file read before submitting again.                        *)
(***************************************************************************)
InitValidate == InitWith(BlankishDrafts)

NextValidate ==
    \/ \E f \in TypedFields : \E v \in TypedValues(f) : UserInput(f, v) /\ Op("other")
    \/ \E f \in TypedFields : FieldBlur(f, TRUE) /\ Op("other")
    \/ \E f \in TypedFields : FieldChange(f, TRUE) /\ Op("other")
    \/ \E f \in FieldSet : SaveTimeoutFires(f, TRUE) /\ Op("other")
    \/ IntervalTick(TRUE) /\ Op("other")
    \/ VisibilityHidden(TRUE) /\ Op("other")
    \/ OpenCreateModal(TRUE) /\ Op("other")
    \/ \E index \in Indexes : OpenEditModal(index, TRUE) /\ Op("other")
    \/ CloseModals /\ Op("other")
    \/ \E index \in Indexes : \E confirmed \in BOOLEAN :
            DeletePost(index, confirmed) /\ Op("other")
    \/ readers = <<>> /\ HandleSubmit /\ Op("submit")
    \/ \E k \in 1..MaxReaders : ReaderOnload(k, TRUE) /\ Op("other")
    \/ \E k \in 1..MaxReaders : ReaderOnerror(k) /\ Op("other")
    \/ \E file \in Files : HandleImageUpload(file) /\ Op("other")
    \/ RemoveImage /\ Op("other")
    \/ \E confirmed \in BOOLEAN : ClearFormAndDraft(confirmed, TRUE) /\ Op("other")

SpecValidate == InitValidate /\ [][NextValidate]_vars

\* the order in which the fields are to be reported
ReportOrder == <<"authorName", "postCategory", "postTitle", "postExcerpt">>

BlankPositions == {k \in 1..Len(ReportOrder) : Trim(form[ReportOrder[k]]) = <<>>}

FirstBlankField ==
    ReportOrder[CHOOSE k \in BlankPositions : \A m \in BlankPositions : k <= m]

\* C8: a submit with a required field blank after trimming leaves the one
\* message naming the first blank field of author, category, title,
\* excerpt, whatever the image control holds, and changes neither the Post
\* Store, nor the Draft Store, nor the session mode.
C8_BlankFieldRejected ==
    [][(lastOp' = "submit" /\ BlankPositions # {})
          => /\ formError' = <<FirstBlankField, " is required.">>
             /\ UNCHANGED <<posts, formDraft, storage, currentEditIndex, readers>>
      ]_vars

\* a rejected submit in Create mode named the category although the title
\* is blank as well and no image is selected
C8_Witness ==
    /\ lastOp = "submit"
    /\ currentEditIndex = NoIndex
    /\ formError = <<"postCategory", " is required.">>
    /\ Trim(form.authorName) # <<>>
    /\ Trim(form.postCategory) = <<>>
    /\ Trim(form.postTitle) = <<>>
    /\ form.postImage = Null

(***************************************************************************)
(* Specification of the draft over several days: the form, the autosave    *)
(* triggers, the create modal and the wall clock read by new Date().       *)
(***************************************************************************)
MaxDays == 8

\* a day passes between two handlers
Tick ==
    /\ now < MaxDays * MsPerDay
    /\ now' = now + MsPerDay
    /\ UNCHANGED <<variant, posts, userContainer, defaultContainer,
                   formDraft, currentEditIndex, selectedImageAttribution,
                   form, formError, modalOpen, saveTimeout, autoSaveInterval, readers,
                   storage, storageAvailable>>

NextClock ==
    \/ Tick /\ Op("other")
    \/ \E f \in TypedFields : \E v \in TypedValues(f) : UserInput(f, v) /\ Op("other")
    \/ \E f \in TypedFields :
            FieldBlur(f, TRUE) /\ Op(IF variant = "dedup" THEN "other" ELSE "autosave")
    \/ \E f \in TypedFields : FieldChange(f, TRUE) /\ Op("autosave")
    \/ \E f \in FieldSet : SaveTimeoutFires(f, TRUE) /\ Op("autosave")
    \/ IntervalTick(TRUE) /\ Op("autosave")
    \/ VisibilityHidden(TRUE) /\ Op("autosave")
    \/ OpenCreateModal(TRUE)
            /\ Op(IF LoadedDraft # Null THEN "openWithDraft" ELSE "openWithoutDraft")
    \/ CloseModals /\ Op("other")
    \/ \E confirmed \in BOOLEAN : ClearFormAndDraft(confirmed, TRUE) /\ Op("other")

SpecClock == Init /\ [][NextClock]_vars

\* a draft snapshot without its timestamp
WithoutTimestamp(d) == [k \in DOMAIN d \ {"savedAt"} |-> d[k]]

\* C12: in the dedup variant, an autosave in Create mode whose candidate
\* snapshot equals the last saved draft, timestamp aside, skips the write: the
\* draft in memory and the stored item, savedAt included, are unchanged.
C12_DedupSkipsUnchangedContent ==
    [][(/\ variant = "dedup"
        /\ lastOp' = "autosave"
        /\ currentEditIndex = NoIndex
        /\ formDraft # Null
        /\ WithoutTimestamp(DraftOfForm) = WithoutTimestamp(formDraft))
       => UNCHANGED <<formDraft, storage>>]_vars

\* C13: loadFormDraft never reuses an expired draft: a stored draft older than
\* 7 days is cleared from memory and from 'blogFormDraft' and the form stays
\* empty; a draft of age at most 7 days is restored with all its field values.
C13_ExpiredDraftDiscarded ==
    [][lastOp' = "openWithDraft" =>
          IF now - LoadedDraft.savedAt > 7 * 24 * 60 * 60 * 1000
          THEN /\ formDraft' = Null
               /\ storage' = NoItem
               /\ \A f \in FieldSet : form'[f] = <<>>
          ELSE /\ formDraft' = LoadedDraft
               /\ \A f \in FieldSet : form'[f] = LoadedDraft[f]
      ]_vars

\* the create modal has been opened on a draft saved eight days before, and
\* the draft is gone
C13_Witness ==
    /\ lastOp = "openWithDraft"
    /\ now = 8 * MsPerDay
    /\ formDraft = Null
    /\ storage = NoItem
    /\ form = EmptyForm

(***************************************************************************)
(* Specification of the create modal opened after an edit or a publish,    *)
(* over several days: one post is published, from what the form holds.     *)
(***************************************************************************)
NextCreate ==
    \/ Tick /\ Op("other")
    \/ \E f \in TypedFields : \E v \in TypedValues(f) : UserInput(f, v) /\ Op("other")
    \/ \E f \in FieldSet : SaveTimeoutFires(f, TRUE) /\ Op("autosave")
    \/ VisibilityHidden(TRUE) /\ Op("autosave")
    \/ OpenCreateModal(TRUE)
            /\ Op(IF \A f \in FieldSet : form[f] = <<>>
                  THEN "openOnEmptyForm" ELSE "openOnStaleForm")
    \/ \E index \in Indexes : OpenEditModal(index, TRUE) /\ Op("openEdit")
    \/ CloseModals /\ Op("other")
    \/ /\ creates = 0
       /\ CreatePost(createPostData(form, DataURL(PngFile)), TRUE)
       /\ creates' = 1
       /\ lastOp' = "published"
       /\ UNCHANGED <<trip, deletes>>

SpecCreate == Init /\ [][NextCreate]_vars

\* C14: after openCreateModal the session is in Create mode and the tracked
\* fields hold the stored draft's values if a draft of age at most 7 days is
\* stored, and are all empty otherwise, whatever the form held before.
C14_OpenCreateShowsDraftOrEmptyForm ==
    [][lastOp' \in {"openOnEmptyForm", "openOnStaleForm"} =>
          /\ currentEditIndex' = NoIndex
          /\ IF LoadedDraft # Null /\ now - LoadedDraft.savedAt <= 7 * MsPerDay
             THEN \A f \in FieldSet : form'[f] = LoadedDraft[f]
             ELSE \A f \in FieldSet : form'[f] = <<>>
      ]_vars

\* the create modal has been opened over the values of an edited post, with no
\* draft stored, and shows an empty form
C14_Witness ==
    /\ lastOp = "openOnStaleForm"
    /\ posts # <<>>
    /\ formDraft = Null
    /\ currentEditIndex = NoIndex
    /\ form = EmptyForm

(***************************************************************************)
(* Claims about the effect of an accepted submit, checked under Spec       *)
(***************************************************************************)
\* the step changes post i alone: its editable fields are those of the
\* submitted form fd, its views is kept, its dateEdited is set, and its image
\* is newImage, or the one it had when newImage is Null
EditedOnly(i, fd, newImage) ==
    /\ i \in 0..(Len(posts) - 1)
    /\ Len(posts') = Len(posts)
    /\ \A j \in 1..Len(posts) : j # i + 1 => posts'[j] = posts[j]
    /\ posts'[i + 1].author = Trim(fd.authorName)
    /\ posts'[i + 1].category = fd.postCategory
    /\ posts'[i + 1].title = Trim(fd.postTitle)
    /\ posts'[i + 1].excerpt = Trim(fd.postExcerpt)
    /\ posts'[i + 1].tags = ParseTags(fd.postTags)
    /\ posts'[i + 1].views = posts[i + 1].views
    /\ posts'[i + 1].dateEdited = <<now>>
    /\ posts'[i + 1].image = (IF newImage = Null THEN posts[i + 1].image ELSE newImage)

\* C15: an accepted submit made in Editing(i) changes only post i: its
\* editable fields take the submitted values, its views is preserved, its
\* dateEdited is set and, with no new image, its image is untouched; the
\* length of the Post Store and every other post are unchanged.  The submit
\* without a new image is applied by handleSubmit, the one with a new image
\* by reader.onload.
C15_EditSubmitChangesOnlyThatPost ==
    [][/\ (/\ currentEditIndex # NoIndex
           /\ validateForm = <<>>
           /\ ~HasImageFile(form)
           /\ HandleSubmit)
          => EditedOnly(currentEditIndex, form, Null)
       /\ \A k \in 1..MaxReaders :
             (/\ k <= Len(readers)
              /\ readers[k].mode # NoIndex
              /\ ReaderOnload(k, TRUE))
             => EditedOnly(readers[k].mode, readers[k].formData,
                           DataURL(readers[k].formData.postImage))
      ]_vars

\* the same handlers, started with a draft that carries an image attribution
InitPublish == InitWith({AttributedDraft})

SpecPublish == InitPublish /\ [][Next]_vars

\* C16: an accepted submit made in Create mode prepends exactly one post with
\* views = 0 and no dateEdited, keeps every earlier post in order one position
\* down, puts the pending image attribution (if any) on the new post, and
\* leaves the Draft Store and the pending attribution empty.  The submit is
\* applied by reader.onload.
C16_CreateSubmitPrependsOnePost ==
    [][\A k \in 1..MaxReaders :
          (/\ k <= Len(readers)
           /\ readers[k].mode = NoIndex
           /\ ReaderOnload(k, TRUE))
          => /\ Len(posts') = Len(posts) + 1
             /\ \A j \in 1..Len(posts) : posts'[j + 1] = posts[j]
             /\ posts'[1].views = 0
             /\ posts'[1].dateEdited = <<>>
             /\ posts'[1].title = Trim(readers[k].formData.postTitle)
             /\ posts'[1].imageAttribution = selectedImageAttribution
             /\ selectedImageAttribution' = Null
             /\ formDraft' = Null
             /\ storage' = NoItem
      ]_vars

(***************************************************************************)
(* Specification of submits with any file in the image control: the file   *)
(* is picked by the user (onchange runs handleImageUpload) or assigned to   *)
(* the control's files by script, which fires no change event.  lastOp is   *)
(* "submit" after handleSubmit; the user waits for a pending file read,     *)
(* and one post is published.                                              *)
(***************************************************************************)
ImageFiles ==
    {[type |-> "image/png", size |-> 1024],
     [type |-> "image/jpeg", size |-> 5 * 1024 * 1024],
     [type |-> "image/png", size |-> 5 * 1024 * 1024 + 1],
     [type |-> "image/gif", size |-> 1024]}

\* postImage.files = ...: what validateForm and new FormData(form) will read
AssignFiles(file) ==
    /\ modalOpen
    /\ form' = [form EXCEPT !.postImage = file]
    /\ UNCHANGED <<variant, posts, userContainer, defaultContainer,
                   formDraft, currentEditIndex, selectedImageAttribution,
                   formError, modalOpen, saveTimeout, autoSaveInterval, readers, storage,
                   storageAvailable, now>>

NextImage ==
    \/ \E f \in TypedFields : \E v \in TypedValues(f) : UserInput(f, v) /\ Op("other")
    \/ OpenCreateModal(TRUE) /\ Op("other")
    \/ \E index \in Indexes : OpenEditModal(index, TRUE) /\ Op("other")
    \/ CloseModals /\ Op("other")
    \/ \E file \in ImageFiles : AssignFiles(file) /\ Op("other")
    \/ \E file \in ImageFiles : HandleImageUpload(file) /\ Op("other")
    \/ RemoveImage /\ Op("other")
    \/ readers = <<>> /\ HandleSubmit /\ Op("submit")
    \/ \E k \in 1..MaxReaders :
            /\ CreateMode => creates = 0
            /\ ReaderOnload(k, TRUE)
            /\ creates' = IF CreateMode THEN 1 ELSE creates
            /\ lastOp' = "other"
            /\ UNCHANGED <<trip, deletes>>
    \/ \E k \in 1..MaxReaders : ReaderOnerror(k) /\ Op("other")

SpecImage == Init /\ [][NextImage]_vars

\* every required field is filled in
RequiredFilled ==
    \A f \in {"authorName", "postCategory", "postTitle", "postExcerpt"} :
        Trim(form[f]) # <<>>

\* C17: a Create-mode submit with no image selected is rejected; in either
\* mode a selected image that is neither PNG nor JPEG, or larger than
\* 5*1024*1024 bytes, is rejected, while one of exactly 5*1024*1024 bytes is
\* accepted; an Editing-mode submit with no image selected is accepted; and
\* every rejection leaves the Post Store unchanged.  A rejected submit leaves
\* a message and starts nothing; an accepted one leaves none and either starts
\* the file read or applies the edit and closes the modal.
C17_ImageRulesOfSubmit ==
    [][lastOp' = "submit" =>
          LET image == form.postImage
              rejected == formError' # <<>> /\ posts' = posts /\ readers' = readers
              accepted == formError' = <<>> /\ (readers' # readers \/ ~modalOpen')
          IN  /\ (currentEditIndex = NoIndex /\ image = Null) => rejected
              /\ (image # Null /\ image.type \notin {"image/png", "image/jpeg"}) => rejected
              /\ (image # Null /\ image.size > 5 * 1024 * 1024) => rejected
              /\ (/\ RequiredFilled
                  /\ image # Null
                  /\ image.type \in {"image/png", "image/jpeg"}
                  /\ image.size = 5 * 1024 * 1024) => accepted
              /\ (/\ RequiredFilled
                  /\ currentEditIndex \in 0..(Len(posts) - 1)
                  /\ image = Null) => accepted
              /\ formError' # <<>> => posts' = posts
      ]_vars

\* an Editing-mode submit with a new image of exactly 5 MiB has been accepted
\* and is being read
C17_Witness ==
    /\ lastOp = "submit"
    /\ currentEditIndex # NoIndex
    /\ formError = <<>>
    /\ Len(readers) = 1
    /\ readers[1].formData.postImage.size = 5 * 1024 * 1024

(***************************************************************************)
(* Specification of hasUnsavedChanges over typed field values: lastOp      *)
(* records what the call returned.                                         *)
(***************************************************************************)
\* what the user types into a tracked control: nothing, a blank, a letter
TypedTexts == {<<>>, <<" ">>, <<"x">>}

\* blogManager.hasUnsavedChanges() called on the controls as they are
HasUnsavedChangesCalled ==
    /\ lastOp' = IF hasUnsavedChanges THEN "unsaved" ELSE "clean"
    /\ UNCHANGED <<variant, posts, userContainer, defaultContainer,
                   formDraft, currentEditIndex, selectedImageAttribution,
                   form, formError, modalOpen, saveTimeout, autoSaveInterval, readers,
                   storage, storageAvailable, now, trip, creates, deletes>>

NextUnsaved ==
    \/ OpenCreateModal(TRUE) /\ Op("other")
    \/ \E f \in FieldSet : \E v \in TypedTexts : UserInput(f, v) /\ Op("other")
    \/ HasUnsavedChangesCalled

SpecUnsaved == Init /\ [][NextUnsaved]_vars

\* C18: hasUnsavedChanges() is true if and only if at least one of the five
\* tracked fields (author, category, title, excerpt, tags) is non-empty after
\* trimming whitespace.
C18_UnsavedIffSomeFieldNonBlank ==
    [][lastOp' \in {"unsaved", "clean"} =>
          (lastOp' = "unsaved" <=>
              \E f \in {"authorName", "postCategory", "postTitle", "postExcerpt",
                         "postTags"} : Trim(form[f]) # <<>>)
      ]_vars

(***************************************************************************)
(* handleSort: the nodes of both containers, sorted by Array.prototype.sort *)
(* (stable) and moved into #defaultPostsContainer                          *)
(***************************************************************************)
MaxNodes == 5
MaxSortDays == 2

Letters == <<"A", "B", "C", "D", "E", "F", "G", "H", "I", "J", "K", "L", "M",
             "N", "O", "P", "Q", "R", "S", "T", "U", "V", "W", "X", "Y", "Z">>

\* position of a character in the collation: the capital letters in
\* alphabetical order, every other character before them
CharRank(c) ==
    IF \E k \in 1..Len(Letters) : Letters[k] = c
    THEN CHOOSE k \in 1..Len(Letters) : Letters[k] = c
    ELSE 0

\* titleA.localeCompare(titleB): negative, zero or positive
RECURSIVE localeCompare(_, _)
localeCompare(a, b) ==
    IF a = <<>> /\ b = <<>> THEN 0
    ELSE IF a = <<>> THEN -1
    ELSE IF b = <<>> THEN 1
    ELSE IF CharRank(Head(a)) # CharRank(Head(b))
         THEN CharRank(Head(a)) - CharRank(Head(b))
    ELSE localeCompare(Tail(a), Tail(b))

\* convertDateTextToISO: midnight of the day the text names, or the current
\* time when the text does not parse
convertDateTextToISO(dateText) ==
    IF dateText[1] >= 0 THEN dateText[1] * MsPerDay ELSE now

\* "Add date attributes to default posts if they don't have them"
WithDataDate(node) ==
    IF node.date = <<>> /\ node.dateText # <<>>
    THEN [node EXCEPT !.date = <<convertDateTextToISO(node.dateText)>>]
    ELSE node

\* new Date(a.dataset.date || 0)
DateOf(node) == IF node.date = <<>> THEN 0 ELSE node.date[1]

\* the comparator with the 'oldest' case a copy of the 'newest' case
CompareNewestTwice(sortValue, a, b) ==
    IF sortValue \in {"newest", "oldest"} THEN DateOf(b) - DateOf(a)
    ELSE IF sortValue = "title" THEN localeCompare(a.title, b.title)
    ELSE 0

\* the comparator passed to allPosts.sort
Compare(sortValue, a, b) ==
    IF sortValue = "newest" THEN DateOf(b) - DateOf(a)
    ELSE IF sortValue = "oldest" THEN DateOf(a) - DateOf(b)
    ELSE IF sortValue = "title" THEN localeCompare(a.title, b.title)
    ELSE 0

\* Array.prototype.sort is stable: node, which came after every node of
\* sorted, goes behind those that do not compare greater
RECURSIVE InsertLast(_, _, _)
InsertLast(sortValue, sorted, node) ==
    IF sorted = <<>> THEN <<node>>
    ELSE IF Compare(sortValue, sorted[Len(sorted)], node) <= 0
         THEN Append(sorted, node)
    ELSE Append(InsertLast(sortValue, SubSeq(sorted, 1, Len(sorted) - 1), node),
                sorted[Len(sorted)])

RECURSIVE Sorted(_, _)
Sorted(sortValue, nodes) ==
    IF nodes = <<>> THEN <<>>
    ELSE InsertLast(sortValue, Sorted(sortValue, SubSeq(nodes, 1, Len(nodes) - 1)),
                    nodes[Len(nodes)])

\* [...userPosts, ...defaultPosts] once the default posts have their dates
AllPosts ==
    userContainer \o [k \in 1..Len(defaultContainer) |-> WithDataDate(defaultContainer[k])]

SortValues == {"newest", "oldest", "title", "none"}

HandleSort(sortValue) ==
    /\ Len(AllPosts) <= MaxNodes
    /\ IF AllPosts = <<>>
       THEN UNCHANGED <<userContainer, defaultContainer>>
       ELSE /\ userContainer' = <<>>
            /\ defaultContainer' = Sorted(sortValue, AllPosts)
    /\ UNCHANGED <<variant, posts, formDraft, currentEditIndex, selectedImageAttribution,
                   form, formError, modalOpen, saveTimeout, autoSaveInterval, readers,
                   storage, storageAvailable, now>>

NextSort ==
    \/ now < MaxSortDays * MsPerDay /\ Tick /\ Op("other")
    \/ \E postData \in PostDatas : CreatePost(postData, TRUE) /\ Op("other")
    \/ \E sortValue \in SortValues : HandleSort(sortValue) /\ Op(sortValue)

\* the page loaded with sessionStorage and no draft in it
InitSort == InitWith({}) /\ storageAvailable

SpecSort == InitSort /\ [][NextSort]_vars

\* the timestamp of an entry: its data-date, else the day its date text names,
\* else the epoch
Timestamp(node) ==
    IF node.date # <<>> THEN node.date[1]
    ELSE IF node.dateText # <<>> THEN node.dateText[1] * MsPerDay
    ELSE 0

\* an entry of the list: which post it shows, its title and its timestamp
Shown(node) ==
    [kind |-> node.kind, id |-> node.id, title |-> node.title,
     timestamp |-> Timestamp(node)]

\* s comes strictly before t in lexicographic order
TitleBefore(s, t) ==
    \E k \in 1..Len(t) :
        /\ k <= Len(s) + 1
        /\ SubSeq(s, 1, k - 1) = SubSeq(t, 1, k - 1)
        /\ k = Len(s) + 1 \/ CharRank(s[k]) < CharRank(t[k])

\* a may stand before b under the key
InOrder(key, a, b) ==
    IF key = "newest" THEN a.timestamp >= b.timestamp
    ELSE IF key = "oldest" THEN a.timestamp <= b.timestamp
    ELSE ~TitleBefore(b.title, a.title)

SameKey(key, a, b) ==
    IF key = "title" THEN a.title = b.title ELSE a.timestamp = b.timestamp

\* after holds the entries of before, ordered by the key, those of equal key
\* in the order they had in before
StablySorted(key, before, after) ==
    /\ Len(after) = Len(before)
    /\ \A k, l \in 1..Len(after) : k < l => InOrder(key, after[k], after[l])
    /\ \A k \in 1..Len(before) :
           SelectSeq(after, LAMBDA n : SameKey(key, n, before[k]))
               = SelectSeq(before, LAMBDA n : SameKey(key, n, before[k]))

\* C20: handleSort leaves a permutation of the combined list of user and
\* static posts, ordered by the chosen key (newest: non-increasing timestamp;
\* oldest: non-decreasing timestamp; title: non-decreasing lexicographic
\* title), entries of equal key in their original relative order.
C20_SortIsStablePermutation ==
    [][lastOp' \in {"newest", "oldest", "title"} =>
          LET combined == userContainer \o defaultContainer
          IN  StablySorted(lastOp',
                           [k \in 1..Len(combined) |-> Shown(combined[k])],
                           [k \in 1..Len(defaultContainer') |-> Shown(defaultContainer'[k])])
      ]_vars

\* two user posts and both static posts, and a stale node from an earlier sort,
\* have been sorted by title: "A" leads, and a user post titled "U" stands
\* right before the static post of the same title
C20_Witness ==
    /\ lastOp = "title"
    /\ userContainer = <<>>
    /\ Len(defaultContainer) = MaxNodes
    /\ defaultContainer[1].title = <<"A">>
    /\ \E k \in 1..(Len(defaultContainer) - 1) :
           /\ defaultContainer[k].title = defaultContainer[k + 1].title
           /\ defaultContainer[k].kind = "user"
           /\ defaultContainer[k + 1].kind = "static"

(***************************************************************************)
(* Specification of the Post Store over several days: createPost,          *)
(* updatePost and deletePost called with the post data createPostData      *)
(* builds at the time of the call, and the wall clock advancing between    *)
(* the calls.  lastOp is "update" after an updatePost on an index holding  *)
(* a post.                                                                 *)
(***************************************************************************)
MaxStoreDays == 2

NextDates ==
    \/ now < MaxStoreDays * MsPerDay /\ Tick /\ Op("tick")
    \/ \E postData \in PostDatas : CreatePost(postData, TRUE) /\ Op("create")
    \/ \E index \in StoreIndexes : \E postData \in PostDatas :
            UpdatePost(index, postData)
                /\ Op(IF HasPost(index) THEN "update" ELSE "outOfRange")
    \/ \E index \in StoreIndexes : \E confirmed \in BOOLEAN :
            DeletePost(index, confirmed) /\ Op("delete")

SpecDates == InitSort /\ [][NextDates]_vars

\* C21: after any sequence of create, update and delete operations the Post
\* Store is ordered newest first: for positions j < k the date of the post at j
\* is not earlier than the date of the post at k.
C21_StoreOrderedNewestFirst ==
    \A j, k \in 1..Len(posts) : j < k => posts[j].date >= posts[k].date

\* C25: updatePost leaves the date of the updated post (and of every other
\* post) unchanged; the update time is recorded in dateEdited only.
C25_UpdateKeepsCreationDate ==
    [][lastOp' = "update" =>
          /\ Len(posts') = Len(posts)
          /\ \A j \in 1..Len(posts) : posts'[j].date = posts[j].date
      ]_vars

(***************************************************************************)
(* Claims about the autosave triggers over a whole page session            *)
(***************************************************************************)
\* C22: in the interval variant the 2-second interval stays armed for the whole
\* page session: whenever the editor is open in Create mode the interval is
\* armed, so that its next tick saves the form.  (The timer is armed once, by
\* init; a cleared interval never ticks again, so an open create editor with
\* the interval cleared is a state from which no tick ever fires.)
C22_IntervalArmedWhileCreating ==
    (variant = "interval" /\ modalOpen /\ CreateMode) => autoSaveInterval

(***************************************************************************)
(* Specification recording where the form's content comes from: lastOp is  *)
(* "edited" from an openEditModal that hydrated the form from a post until *)
(* the form is next reset (by openCreateModal or a confirmed               *)
(* clearFormAndDraft, which make it "clean").  The user waits for a        *)
(* pending file read before submitting again.                              *)
(***************************************************************************)
NextEdit ==
    \/ \E f \in TypedFields : \E v \in TypedValues(f) :
            UserInput(f, v) /\ UNCHANGED history
    \/ \E f \in TypedFields : FieldBlur(f, TRUE) /\ UNCHANGED history
    \/ \E f \in TypedFields : FieldChange(f, TRUE) /\ UNCHANGED history
    \/ \E f \in FieldSet : SaveTimeoutFires(f, TRUE) /\ UNCHANGED history
    \/ IntervalTick(TRUE) /\ UNCHANGED history
    \/ VisibilityHidden(TRUE) /\ UNCHANGED history
    \/ OpenCreateModal(TRUE) /\ Op("clean")
    \/ \E index \in Indexes :
            OpenEditModal(index, TRUE) /\ Op(IF HasPost(index) THEN "edited" ELSE lastOp)
    \/ CloseModals /\ UNCHANGED history
    \/ readers = <<>> /\ HandleSubmit /\ UNCHANGED history
    \/ \E k \in 1..MaxReaders : ReaderOnload(k, TRUE) /\ UNCHANGED history
    \/ \E file \in Files : HandleImageUpload(file) /\ UNCHANGED history
    \/ \E confirmed \in BOOLEAN :
            ClearFormAndDraft(confirmed, TRUE) /\ Op(IF confirmed THEN "clean" ELSE lastOp)

SpecEdit == Init /\ [][NextEdit]_vars

\* C23: edits never draft-save.  While the form holds the content of an
\* Editing session (hydrated from the post, with whatever was typed over it),
\* the Draft Store is empty in memory and under 'blogFormDraft', also after the
\* edit was abandoned with closeModals or completed by an update; and the
\* openCreateModal that follows presents an empty form.
C23_EditsNeverDraftSave ==
    /\ [](lastOp = "edited" => (formDraft = Null /\ storage = NoItem))
    /\ [][(lastOp = "edited" /\ OpenCreateModal(TRUE))
              => \A f \in FieldSet : form'[f] = <<>>]_vars

\* the five field values of a draft snapshot are those of the form controls fd
SameFields(d, fd) == \A f \in FieldSet : d[f] = fd[f]

\* C24: after an autosave trigger has fired in Create mode the Draft Store is
\* consistent with the form: in memory and under 'blogFormDraft' it holds no
\* draft or a draft whose five field values are the form's current values.
C24_DraftConsistentAfterFire ==
    [][(lastOp' = "autosave" /\ CreateMode)
          => /\ (formDraft' = Null \/ SameFields(formDraft', form'))
             /\ (storage' = NoItem \/ SameFields(ParseDraft(storage'), form'))
      ]_vars

(***************************************************************************)
(* Claims about the rendered nodes of the user posts                       *)
(***************************************************************************)
\* the rendered nodes of user posts, in either container
UserNodes == SelectSeq(AllPosts, LAMBDA node : node.kind = "user")

\* C26: every user post is shown by exactly one rendered node, and the data-id
\* of every user node (the index its Read, Edit and Delete controls pass on)
\* is the current position of the post the node displays.
C26_NodesMatchStore ==
    /\ Len(UserNodes) = Len(posts)
    /\ \A k \in 1..Len(UserNodes) :
            /\ HasPost(UserNodes[k].id)
            /\ UserNodes[k] = UserNode(UserNodes[k].id, PostAt(UserNodes[k].id))
    /\ \A j, k \in 1..Len(UserNodes) : j # k => UserNodes[j].id # UserNodes[k].id

(***************************************************************************)
(* Specification of repeated submits: the submit button stays usable while *)
(* a file read is pending, so several reads can be in flight.  creates     *)
(* counts the posts created by reader.onload since the editor was last     *)
(* opened.                                                                 *)
(***************************************************************************)
MaxPendingReads == 2

NextResubmit ==
    \/ OpenCreateModal(TRUE) /\ creates' = 0 /\ UNCHANGED <<lastOp, trip, deletes>>
    \/ \E f \in TypedFields : \E v \in TypedValues(f) :
            UserInput(f, v) /\ UNCHANGED history
    \/ \E file \in Files : HandleImageUpload(file) /\ UNCHANGED history
    \/ HandleSubmitWithin(MaxPendingReads) /\ UNCHANGED history
    \/ \E k \in 1..MaxPendingReads :
            /\ ReaderOnload(k, TRUE)
            /\ creates' = IF CreateMode THEN creates + 1 ELSE creates
            /\ UNCHANGED <<lastOp, trip, deletes>>
    \/ \E k \in 1..MaxPendingReads : ReaderOnerror(k) /\ UNCHANGED history

SpecResubmit == Init /\ [][NextResubmit]_vars

\* C27: submits repeated on the same open form while a file read is pending
\* produce one post: the reads started from one opening of the editor create
\* at most one post.
C27_ResubmitCreatesOnePost ==
    creates <= 1

(***************************************************************************)
(* Specification of the Draft Store with sessionStorage calls that can     *)
(* throw: every setItem and removeItem succeeds or fails on its own.       *)
(* lastOp is the last operation that changed the Draft Store: "saved" (a   *)
(* saveFormDraft that reached its write), "cleared" (clearFormDraft) or    *)
(* "loaded" (a loadFormDraft that restored a draft).                       *)
(***************************************************************************)
NextStorage ==
    \/ \E f \in TypedFields : \E v \in TypedValues(f) : UserInput(f, v) /\ UNCHANGED history
    \/ \E f \in FieldSet : \E setOk \in BOOLEAN :
            SaveTimeoutFires(f, setOk) /\ Op(IF SaveWrites THEN "saved" ELSE lastOp)
    \/ \E setOk \in BOOLEAN :
            VisibilityHidden(setOk) /\ Op(IF SaveWrites THEN "saved" ELSE lastOp)
    \/ \E removeOk \in BOOLEAN :
            OpenCreateModal(removeOk)
                /\ Op(IF LoadedDraft = Null THEN lastOp
                      ELSE IF DraftExpired(LoadedDraft) THEN "cleared" ELSE "loaded")
    \/ CloseModals /\ UNCHANGED history
    \/ \E confirmed, removeOk \in BOOLEAN :
            ClearFormAndDraft(confirmed, removeOk)
                /\ Op(IF confirmed THEN "cleared" ELSE lastOp)

SpecStorage == Init /\ [][NextStorage]_vars

\* C28: loadFormDraft (run by openCreateModal) restores the snapshot of the
\* most recent saveFormDraft that no clearFormDraft followed, and restores
\* nothing after a clearFormDraft, whether sessionStorage is available,
\* unavailable or fails on single calls.
C28_LoadRestoresLatestSave ==
    [][(\E removeOk \in BOOLEAN : OpenCreateModal(removeOk))
          => /\ lastOp = "saved" =>
                    (formDraft' = formDraft /\ form' = Hydrate(EmptyForm, formDraft))
             /\ lastOp = "cleared" =>
                    (formDraft' = Null /\ form' = EmptyForm)
      ]_vars

(***************************************************************************)
(* Specification recording an explicit clear: lastOp is "cleared" from a   *)
(* confirmed clearFormAndDraft until the user enters content in a tracked  *)
(* field ("typed") or a draft is restored ("loaded").  sessionStorage      *)
(* calls succeed.                                                          *)
(***************************************************************************)
NextCleared ==
    \/ \E f \in TypedFields : \E v \in TypedValues(f) :
            UserInput(f, v) /\ Op(IF v # <<>> THEN "typed" ELSE lastOp)
    \/ \E f \in TypedFields : FieldBlur(f, TRUE) /\ UNCHANGED history
    \/ \E f \in TypedFields : FieldChange(f, TRUE) /\ UNCHANGED history
    \/ \E f \in FieldSet : SaveTimeoutFires(f, TRUE) /\ UNCHANGED history
    \/ IntervalTick(TRUE) /\ UNCHANGED history
    \/ VisibilityHidden(TRUE) /\ UNCHANGED history
    \/ OpenCreateModal(TRUE) /\ Op(IF LoadedDraft = Null THEN lastOp ELSE "loaded")
    \/ CloseModals /\ UNCHANGED history
    \/ \E confirmed \in BOOLEAN :
            ClearFormAndDraft(confirmed, TRUE) /\ Op(IF confirmed THEN "cleared" ELSE lastOp)

SpecCleared == Init /\ [][NextCleared]_vars

\* C29: after a confirmed clearFormAndDraft the Draft Store is empty, in memory
\* and under 'blogFormDraft', and stays empty until the user enters content in
\* a tracked field: triggers firing on the empty form create no draft, and an
\* openCreateModal in between restores nothing.
C29_ClearedStaysEmpty ==
    lastOp = "cleared" => (formDraft = Null /\ storage = NoItem)

(***************************************************************************)
(* Claims about the navigation-exit warning                                *)
(***************************************************************************)
\* the beforeunload listener of part_000 asks the browser to warn
BeforeUnloadWarns == variant = "interval" /\ CreateMode /\ hasUnsavedChanges

\* C30: right after a submit has published its post and closed the editor,
\* with no user input since, hasUnsavedChanges() is false and the beforeunload
\* listener raises no warning.
C30_NoWarningAfterPublish ==
    lastOp = "published" => (~hasUnsavedChanges /\ ~BeforeUnloadWarns)
====
